---- MODULE Spec2Model ----
(***************************************************************************)
(* PwaService (src/src/app/services/pwa.service.ts): the browser-side      *)
(* playlist facade.  sendIpcEvent dispatches a command, talks to the       *)
(* IndexedDB store (dbService) and to the CORS proxy (http), and answers   *)
(* with window.postMessage.                                                *)
(*                                                                         *)
(* A JavaScript object is a function from field names to values; a field   *)
(* that is absent is not in the DOMAIN.  Object spread {...a, ...b} is     *)
(* b @@ a (the later operand wins).  An array is a sequence.               *)
(***************************************************************************)
EXTENDS Integers, Sequences, FiniteSets, TLC

VARIABLES
    db,        \* the Playlists object store: key |-> record
    keyOrder,  \* the keys guid() made for playlists, in ascending key order
    inflight,  \* the requests whose observable chain has not ended yet
    now,       \* the clock: Date.now(); one tick per command received
    nextGuid,  \* number of identifiers guid() has handed out
    posted,    \* the messages window.postMessage received in the last step
    ev,        \* the last step taken: [op, ...] (history of one step)
    faults,    \* storage / transport failures so far
    failed,    \* numbers of the requests whose transport fetch failed
    made       \* records returned by createPlaylistObject (SpecNorm only)

vars == <<db, keyOrder, inflight, now, nextGuid, posted, ev, faults, failed, made>>

----------------------------------------------------------------------------
(* Bounds of the model *)

MaxNow == 2         \* commands received in one run
MaxPlaylists == 2   \* records the store holds (added or being added)
MaxItems == 2       \* entries of one playlist text
MaxInFlight == 2    \* requests in flight at once
MaxFaults == 1      \* storage / transport failures in one run
MaxFavorites == 1   \* identifiers in the favorites array of a command
MaxCalls == 2       \* createPlaylistObject calls in one run of SpecNorm
MaxCollection == 2  \* playlists of the collection SpecAgg aggregates

----------------------------------------------------------------------------
(* Values *)

GLOBAL_FAVORITES_PLAYLIST_ID == "GLOBAL_FAVORITES"

UNDEFINED == "undefined"

Empty == [k \in {} |-> k]

Has(o, f) == f \in DOMAIN o

\* {...a, ...b}
Spread(a, b) == b @@ a

\* the n-th identifier guid() returns; it never repeats one
Guid(n) == "g" \o ToString(n)

\* new Date().toISOString() at instant t
ToISOString(t) == "T" \o ToString(t)

Names == {"a", "b"}
Titles == {"t0", "t1"}
Urls == {"http://u"}
Paths == {"/p", UNDEFINED}

\* what the user imports, and what the user renames a playlist to
ImportTitle == "t0"
ImportPath == "/p"
NewTitle == "t1"

Range(s) == {s[i] : i \in DOMAIN s}

SeqsUpTo(S, n) == UNION {[1..k -> S] : k \in 0..n}

NoDup(s) == \A i, j \in DOMAIN s : s[i] = s[j] => i = j

----------------------------------------------------------------------------
(* Playlist text.  A string is a sequence of tokens: a line's content or   *)
(* the newline "\n".  A line is "#EXTM3U", an entry header "#EXTINF:<name>" *)
(* or a URI.                                                               *)

NL == "\n"
ExtM3U == "#EXTM3U"
ExtInf(name) == "#EXTINF:" \o name
Uri == "http://s"

IsExtInf(line) == \E n \in Names : line = ExtInf(n)
NameOf(line) == CHOOSE n \in Names : line = ExtInf(n)

RECURSIVE Join(_)
\* m3uArray.join('\n')
Join(lines) ==
    IF lines = <<>> THEN <<>>
    ELSE IF Len(lines) = 1 THEN <<lines[1]>>
    ELSE <<lines[1], NL>> \o Join(Tail(lines))

RECURSIVE SplitFrom(_, _)
SplitFrom(str, cur) ==
    IF str = <<>> THEN <<cur>>
    ELSE IF Head(str) = NL THEN <<cur>> \o SplitFrom(Tail(str), "")
    ELSE SplitFrom(Tail(str), cur \o Head(str))

\* m3uString.split('\n')
Split(str) == SplitFrom(str, "")

RECURSIVE ParseLines(_, _, _)
\* the entries of the lines: one per entry header followed by its URI line
ParseLines(lines, pending, acc) ==
    IF lines = <<>> THEN acc
    ELSE LET l == Head(lines) IN
         IF IsExtInf(l) THEN ParseLines(Tail(lines), <<NameOf(l)>>, acc)
         ELSE IF l = Uri /\ pending # <<>>
              THEN ParseLines(Tail(lines), <<>>,
                              Append(acc, [name |-> pending[1], url |-> l]))
              ELSE ParseLines(Tail(lines), IF l = Uri THEN <<>> ELSE pending, acc)

\* parse(playlistAsString) of iptv-playlist-parser
parse(str) ==
    LET lines == Split(str) IN
    [header |-> [raw |-> IF lines # <<>> /\ lines[1] = ExtM3U THEN ExtM3U ELSE ""],
     items  |-> ParseLines(lines, <<>>, <<>>)]

parsePlaylist(m3uArray) == parse(Join(m3uArray))

convertFileStringToPlaylist(m3uString) == parsePlaylist(Split(m3uString))

RECURSIVE EntryLines(_)
EntryLines(names) ==
    IF names = <<>> THEN <<>>
    ELSE <<ExtInf(Head(names)), Uri>> \o EntryLines(Tail(names))

\* a well-formed playlist file with the named entries, as an array of lines
TextOf(names) == <<ExtM3U>> \o EntryLines(names)

\* the texts of up to n lines
AllTexts(n) == SeqsUpTo({ExtM3U, Uri} \cup {ExtInf(x) : x \in Names}, n)

\* the names of the first k entries of the files served: a, b, a, ...
Lineup(k) == [i \in 1..k |-> IF i % 2 = 1 THEN "a" ELSE "b"]

\* the playlist files the user imports and the proxy serves: up to MaxItems
\* entries, and a file cut after an entry header
Texts == {TextOf(Lineup(k)) : k \in 0..MaxItems} \cup {<<ExtM3U, ExtInf("b")>>}

----------------------------------------------------------------------------
(* Entry Normalizer *)

\* MapItems with guid() called once, before the map
MapItemsOneGuid(items, g) ==
    [i \in 1..Len(items) |-> Spread([id |-> Guid(g + 1)], items[i])]

\* playlist.items.map((item) => ({ id: guid(), ...item })), guid() having
\* handed out g identifiers before
MapItems(items, g) ==
    [i \in 1..Len(items) |-> Spread([id |-> Guid(g + i)], items[i])]

\* createPlaylistObject with an index id of its own
createPlaylistObjectOwnIndexId(name, playlist, urlOrPath, uploadType, g, t) ==
    LET id == Guid(g + 1) IN
    Spread(Spread(
        [id          |-> id,
         _id         |-> "i" \o id,
         filename    |-> name,
         title       |-> name,
         count       |-> Len(playlist.items),
         playlist    |-> Spread(playlist, [items |-> MapItems(playlist.items, g + 1)]),
         importDate  |-> ToISOString(t),
         lastUsage   |-> ToISOString(t),
         favorites   |-> <<>>,
         autoRefresh |-> FALSE],
        IF uploadType = "URL" THEN [url |-> urlOrPath] ELSE Empty),
        IF uploadType = "FILE" THEN [filePath |-> urlOrPath] ELSE Empty)

\* createPlaylistObject(name, playlist, urlOrPath, uploadType) called at
\* instant t, guid() having handed out g identifiers before
createPlaylistObject(name, playlist, urlOrPath, uploadType, g, t) ==
    LET id == Guid(g + 1) IN
    Spread(Spread(
        [id          |-> id,
         _id         |-> id,
         filename    |-> name,
         title       |-> name,
         count       |-> Len(playlist.items),
         playlist    |-> Spread(playlist, [items |-> MapItems(playlist.items, g + 1)]),
         importDate  |-> ToISOString(t),
         lastUsage   |-> ToISOString(t),
         favorites   |-> <<>>,
         autoRefresh |-> FALSE],
        IF uploadType = "URL" THEN [url |-> urlOrPath] ELSE Empty),
        IF uploadType = "FILE" THEN [filePath |-> urlOrPath] ELSE Empty)

\* guid() calls of one createPlaylistObject
GuidsUsed(playlist) == 1 + Len(playlist.items)

----------------------------------------------------------------------------
(* Aggregator *)

Includes(arr, x) == \E i \in DOMAIN arr : arr[i] = x

\* channel.id (undefined when the entry carries none)
IdOf(channel) == IF Has(channel, "id") THEN channel.id ELSE UNDEFINED

RECURSIVE PushFavoritesInMarkOrder(_, _, _)
\* PushFavorites walking the favorites array instead of the entries
PushFavoritesInMarkOrder(items, favs, favorites) ==
    IF favs = <<>> THEN favorites
    ELSE PushFavoritesInMarkOrder(items, Tail(favs),
             favorites \o SelectSeq(items, LAMBDA c : IdOf(c) = Head(favs)))

RECURSIVE PushFavorites(_, _, _)
\* playlist.playlist.items.forEach: push the channels favorites includes
PushFavorites(items, favs, favorites) ==
    IF items = <<>> THEN favorites
    ELSE PushFavorites(Tail(items), favs,
             IF Includes(favs, IdOf(Head(items)))
             THEN Append(favorites, Head(items)) ELSE favorites)

RECURSIVE AggregateFrom(_, _)
\* playlists.forEach of aggregateFavoriteChannels
AggregateFrom(playlists, favorites) ==
    IF playlists = <<>> THEN favorites
    ELSE LET playlist == Head(playlists) IN
         AggregateFrom(Tail(playlists),
             IF Has(playlist, "favorites") /\ Len(playlist.favorites) > 0
             THEN PushFavorites(playlist.playlist.items, playlist.favorites, favorites)
             ELSE favorites)

aggregateFavoriteChannels(playlists) == AggregateFrom(playlists, <<>>)

createFavoritesPlaylist(channels) ==
    [id       |-> GLOBAL_FAVORITES_PLAYLIST_ID,
     _id      |-> GLOBAL_FAVORITES_PLAYLIST_ID,
     count    |-> Len(channels),
     playlist |-> [items |-> channels]]

----------------------------------------------------------------------------
(* playlists.sort((a, b) => a.position - b.position) *)

HasPosition(p) == Has(p, "position")

\* SortCompare: the comparator's result, NaN (a position is undefined)
\* taken as +0
SortCompare(a, b) ==
    IF HasPosition(a) /\ HasPosition(b) THEN a.position - b.position ELSE 0

\* ECMAScript's "consistent comparator" on the values of arr
ConsistentComparator(arr) ==
    \A a, b, c \in Range(arr) :
        /\ (SortCompare(a, b) = 0 /\ SortCompare(b, c) = 0 => SortCompare(a, c) = 0)
        /\ (SortCompare(a, b) < 0 /\ SortCompare(b, c) < 0 => SortCompare(a, c) < 0)
        /\ (SortCompare(a, b) > 0 /\ SortCompare(b, c) > 0 => SortCompare(a, c) > 0)
        /\ (SortCompare(a, b) = 0 => (SortCompare(a, c) < 0 <=> SortCompare(b, c) < 0))
        /\ (SortCompare(a, b) = 0 => (SortCompare(c, a) < 0 <=> SortCompare(c, b) < 0))

\* the one-to-one maps of arr's indices
Bijections(arr) ==
    {g \in [DOMAIN arr -> DOMAIN arr] : \A i, j \in DOMAIN arr : g[i] = g[j] => i = j}

Reordered(arr, f) == [i \in DOMAIN arr |-> arr[f[i]]]

\* ascending by the comparator, equal elements in their original order
StableSorted(arr, f) ==
    \A i, j \in DOMAIN arr : i < j =>
        \/ SortCompare(arr[f[i]], arr[f[j]]) < 0
        \/ SortCompare(arr[f[i]], arr[f[j]]) = 0 /\ f[i] < f[j]

\* the orders Array.prototype.sort may leave arr in: the stable ascending
\* order under a consistent comparator, an implementation-defined order
\* otherwise
SortOutcomes(arr) ==
    {Reordered(arr, f) :
        f \in {g \in Bijections(arr) : ConsistentComparator(arr) => StableSorted(arr, g)}}

----------------------------------------------------------------------------
(* The storage collaborator: dbService over the Playlists object store *)

KeyPath == "_id"

HasKey(rec) == Has(rec, KeyPath)

\* getAll: the records in ascending key order
GetAll(d, order) ==
    LET keys == SelectSeq(order, LAMBDA k : k \in DOMAIN d)
    IN [i \in 1..Len(keys) |-> d[keys[i]]]

\* getByID: the record of the key, or undefined (no record: <<>>)
GetByID(d, key) == IF key \in DOMAIN d THEN <<d[key]>> ELSE <<>>

\* getByIndex: the first record, in key order, whose field index is value
GetByIndex(d, order, index, value) ==
    LET hits == SelectSeq(GetAll(d, order),
                          LAMBDA p : Has(p, index) /\ p[index] = value)
    IN IF hits = <<>> THEN <<>> ELSE <<hits[1]>>

\* add / update: the store with rec under its key
Put(d, rec) == (rec[KeyPath] :> rec) @@ d

\* delete
Delete(d, key) == [k \in DOMAIN d \ {key} |-> d[k]]

\* SpreadRead with a default record in place of a record not found
SpreadReadDefault(read) ==
    IF read = <<>> THEN [id |-> "g0", _id |-> "g0"] ELSE read[1]

\* {...playlist} of what getByID answered: {...undefined} is {}
SpreadRead(read) == IF read = <<>> THEN Empty ELSE read[1]

----------------------------------------------------------------------------
(* Messages *)

Message(type, payload, n) == [type |-> type, payload |-> payload, req |-> n]

\* a message whose payload is undefined
MessageOf(type, read, n) ==
    IF read = <<>> THEN [type |-> type, req |-> n] ELSE Message(type, read[1], n)

ResponsesTo(n) == {i \in DOMAIN posted : posted[i].req = n}

----------------------------------------------------------------------------
(* Requests *)

\* an identifier no playlist has
MissingId == "g0"

\* the playlist identifiers a command may name
CommandIds == DOMAIN db \cup {MissingId}

\* a command may arrive
CanAdmit == now < MaxNow /\ Cardinality(inflight) < MaxInFlight

\* records being added
Adding == {r \in inflight : r.phase = "add"}

\* the requests in flight once r has been received: r ran alone so far iff
\* nothing else is in flight, and nothing in flight runs alone any more
Admit(r) ==
    {[q EXCEPT !.alone = FALSE] : q \in inflight}
        \cup {Spread(r, [n |-> now + 1, alone |-> inflight = {}])}

Finish(r) == inflight \ {r}

Insert(order, at, key) ==
    SubSeq(order, 1, at) \o <<key>> \o SubSeq(order, at + 1, Len(order))

RECURSIVE Imported(_, _)
\* the records PLAYLIST_PARSE made of the texts, guid() having handed out g
\* identifiers before; the user then marked the last entry of each a favorite
Imported(texts, g) ==
    IF texts = <<>> THEN <<>>
    ELSE LET parsedPlaylist == parsePlaylist(Head(texts))
             playlistObject == createPlaylistObject(ImportTitle, parsedPlaylist,
                                                    ImportPath, "FILE", g, 0)
             items == playlistObject.playlist.items
         IN <<[playlistObject EXCEPT
                  !.favorites = IF items = <<>> THEN <<>> ELSE <<items[Len(items)].id>>]>>
                \o Imported(Tail(texts), g + GuidsUsed(parsedPlaylist))

RECURSIVE GuidsOf(_)
GuidsOf(texts) ==
    IF texts = <<>> THEN 0
    ELSE GuidsUsed(parsePlaylist(Head(texts))) + GuidsOf(Tail(texts))

\* the files imported in earlier sessions: none, or a file of MaxItems
\* entries and a file of one entry
EarlierImports == {<<>>, <<TextOf(Lineup(MaxItems)), TextOf(Lineup(1))>>}

\* The store outlives the service: it starts with what earlier sessions left
\* in it, under keys in either order.
Init ==
    /\ \E texts \in EarlierImports :
           LET recs == Imported(texts, 0) IN
           /\ db = [k \in {recs[i][KeyPath] : i \in DOMAIN recs} |->
                       CHOOSE p \in Range(recs) : p[KeyPath] = k]
           /\ \E f \in Bijections(recs) :
                  keyOrder = [i \in DOMAIN recs |-> recs[f[i]][KeyPath]]
           /\ nextGuid = GuidsOf(texts)
    /\ inflight = {}
    /\ now = 0
    /\ posted = <<>>
    /\ ev = [op |-> "init"]
    /\ faults = 0
    /\ failed = {}
    /\ made = <<>>

----------------------------------------------------------------------------
(* sendIpcEvent: PLAYLIST_PARSE *)

ParseCmd ==
    \E title \in {ImportTitle}, text \in Texts, path \in {ImportPath},
       at \in 0..Len(keyOrder) :
        LET parsedPlaylist == parsePlaylist(text)
            playlistObject == createPlaylistObject(title, parsedPlaylist, path,
                                                   "FILE", nextGuid, now + 1)
            r == [type |-> "PLAYLIST_PARSE", phase |-> "add", rec |-> playlistObject]
        IN /\ CanAdmit
           /\ Cardinality(DOMAIN db) + Cardinality(Adding) < MaxPlaylists
           /\ inflight' = Admit(r)
           /\ posted' = <<Message("PLAYLIST_PARSE_RESPONSE", playlistObject, now + 1)>>
           /\ nextGuid' = nextGuid + GuidsUsed(parsedPlaylist)
           /\ keyOrder' = Insert(keyOrder, at, playlistObject.id)
           /\ now' = now + 1
           /\ ev' = [op |-> "PLAYLIST_PARSE", n |-> now + 1]
           /\ UNCHANGED <<db, faults, failed, made>>

\* dbService.add completes
AddDone ==
    \E r \in Adding :
        /\ HasKey(r.rec) /\ r.rec[KeyPath] \notin DOMAIN db
        /\ db' = Put(db, r.rec)
        /\ inflight' = Finish(r)
        /\ posted' = <<>>
        /\ ev' = [op |-> "add_done", req |-> r]
        /\ UNCHANGED <<keyOrder, now, nextGuid, faults, failed, made>>

----------------------------------------------------------------------------
(* sendIpcEvent: PLAYLIST_GET_BY_ID and sendPlaylistWithGlobalFavorites *)

\* GetByIdCmd with every identifier looked up by index
GetByIdCmdByIndex ==
    \E id \in DOMAIN db \cup {"g0", GLOBAL_FAVORITES_PLAYLIST_ID} :
        /\ now < MaxNow /\ Cardinality(inflight) < MaxInFlight
        /\ inflight' = {[q EXCEPT !.alone = FALSE] : q \in inflight}
               \cup {[type |-> "PLAYLIST_GET_BY_ID", id |-> id, phase |-> "getByIndex",
                      n |-> now + 1, alone |-> inflight = {}]}
        /\ posted' = <<>>
        /\ now' = now + 1
        /\ ev' = [op |-> "PLAYLIST_GET_BY_ID", n |-> now + 1]
        /\ UNCHANGED <<db, keyOrder, nextGuid, faults, failed, made>>

GetByIdCmd ==
    \E id \in CommandIds \cup {GLOBAL_FAVORITES_PLAYLIST_ID} :
        /\ CanAdmit
        /\ inflight' = Admit([type |-> "PLAYLIST_GET_BY_ID", id |-> id,
                phase |-> IF id = GLOBAL_FAVORITES_PLAYLIST_ID
                          THEN "getAll" ELSE "getByIndex"])
        /\ posted' = <<>>
        /\ now' = now + 1
        /\ ev' = [op |-> "PLAYLIST_GET_BY_ID", n |-> now + 1]
        /\ UNCHANGED <<db, keyOrder, nextGuid, faults, failed, made>>

RECURSIVE MarksOf(_)
\* the favorites marks of the playlists, as getGlobalFavoritesCount adds them
MarksOf(playlists) ==
    IF playlists = <<>> THEN 0
    ELSE Len(Head(playlists).favorites) + MarksOf(Tail(playlists))

\* FavoritesPlaylistOf with the count of the marks instead of the channels
FavoritesPlaylistCountingMarks(playlists) ==
    [createFavoritesPlaylist(aggregateFavoriteChannels(playlists))
        EXCEPT !.count = MarksOf(playlists)]

\* the playlist sendPlaylistWithGlobalFavorites posts
FavoritesPlaylistOf(playlists) ==
    LET favoriteChannels == aggregateFavoriteChannels(playlists)
        favPlaylist == createFavoritesPlaylist(favoriteChannels)
    IN favPlaylist

GlobalFavoritesDone ==
    \E r \in inflight :
        /\ r.type = "PLAYLIST_GET_BY_ID" /\ r.phase = "getAll"
        /\ posted' = <<Message("PLAYLIST_PARSE_RESPONSE",
                               FavoritesPlaylistOf(GetAll(db, keyOrder)), r.n)>>
        /\ inflight' = Finish(r)
        /\ ev' = [op |-> "favorites_done", req |-> r]
        /\ UNCHANGED <<db, keyOrder, now, nextGuid, faults, failed, made>>

GetByIndexDone ==
    \E r \in inflight :
        /\ r.type = "PLAYLIST_GET_BY_ID" /\ r.phase = "getByIndex"
        /\ posted' = <<MessageOf("PLAYLIST_PARSE_RESPONSE",
                                 GetByIndex(db, keyOrder, "_id", r.id), r.n)>>
        /\ inflight' = Finish(r)
        /\ ev' = [op |-> "get_by_index_done", req |-> r]
        /\ UNCHANGED <<db, keyOrder, now, nextGuid, faults, failed, made>>

----------------------------------------------------------------------------
(* sendIpcEvent: PLAYLIST_REMOVE_BY_ID *)

RemoveCmd ==
    \E id \in CommandIds :
        /\ CanAdmit
        /\ inflight' = Admit([type |-> "PLAYLIST_REMOVE_BY_ID", id |-> id,
                              phase |-> "delete"])
        /\ posted' = <<>>
        /\ now' = now + 1
        /\ ev' = [op |-> "PLAYLIST_REMOVE_BY_ID", n |-> now + 1]
        /\ UNCHANGED <<db, keyOrder, nextGuid, faults, failed, made>>

RemoveDone ==
    \E r \in inflight :
        /\ r.type = "PLAYLIST_REMOVE_BY_ID" /\ r.phase = "delete"
        /\ db' = Delete(db, r.id)
        /\ posted' = <<Message("PLAYLIST_REMOVE_BY_ID_RESPONSE",
                               GetAll(db', keyOrder), r.n)>>
        /\ inflight' = Finish(r)
        /\ ev' = [op |-> "delete_done", req |-> r]
        /\ UNCHANGED <<keyOrder, now, nextGuid, faults, failed, made>>

----------------------------------------------------------------------------
(* sendIpcEvent: PLAYLIST_GET_ALL *)

GetAllCmd ==
    /\ CanAdmit
    /\ inflight' = Admit([type |-> "PLAYLIST_GET_ALL", phase |-> "getAll"])
    /\ posted' = <<>>
    /\ now' = now + 1
    /\ ev' = [op |-> "PLAYLIST_GET_ALL", n |-> now + 1]
    /\ UNCHANGED <<db, keyOrder, nextGuid, faults, failed, made>>

\* GetAllDone held back while a fetch is under way
GetAllDoneAfterFetches ==
    \E r \in inflight :
        /\ \A q \in inflight : q.phase # "http"
        /\ r.type = "PLAYLIST_GET_ALL" /\ r.phase = "getAll"
        /\ \E sorted \in SortOutcomes(GetAll(db, keyOrder)) :
               posted' = <<Message("PLAYLIST_GET_ALL_RESPONSE", sorted, r.n)>>
        /\ inflight' = Finish(r)
        /\ ev' = [op |-> "get_all_done", req |-> r]
        /\ UNCHANGED <<db, keyOrder, now, nextGuid, faults, failed, made>>

GetAllDone ==
    \E r \in inflight :
        /\ r.type = "PLAYLIST_GET_ALL" /\ r.phase = "getAll"
        /\ \E sorted \in SortOutcomes(GetAll(db, keyOrder)) :
               posted' = <<Message("PLAYLIST_GET_ALL_RESPONSE", sorted, r.n)>>
        /\ inflight' = Finish(r)
        /\ ev' = [op |-> "get_all_done", req |-> r]
        /\ UNCHANGED <<db, keyOrder, now, nextGuid, faults, failed, made>>

----------------------------------------------------------------------------
(* sendIpcEvent: PLAYLIST_SAVE_DETAILS and PLAYLIST_UPDATE_FAVORITES *)

\* the favorites arrays the UI may send for a playlist: identifiers of its
\* entries, and one of an entry it does not hold
OrphanEntryId == "g00"

FavoritesChoices(id) ==
    LET ids == IF id \in DOMAIN db
               THEN {IdOf(c) : c \in Range(db[id].playlist.items)} ELSE {}
    IN {f \in SeqsUpTo(ids \cup {OrphanEntryId}, MaxFavorites) : NoDup(f)}

\* a command that reads the playlist id and then writes it back
ReadWriteCmd(r) ==
    /\ CanAdmit
    /\ inflight' = Admit(Spread(r, [phase |-> "read", before |-> GetByID(db, r.id)]))
    /\ posted' = <<>>
    /\ now' = now + 1
    /\ ev' = [op |-> r.type, n |-> now + 1]
    /\ UNCHANGED <<db, keyOrder, nextGuid, faults, failed, made>>

SaveDetailsCmd ==
    \E id \in CommandIds, title \in {NewTitle} :
        ReadWriteCmd([type |-> "PLAYLIST_SAVE_DETAILS", id |-> id, title |-> title])

UpdateFavoritesCmd ==
    \E id \in CommandIds :
        \E favorites \in FavoritesChoices(id) :
            ReadWriteCmd([type |-> "PLAYLIST_UPDATE_FAVORITES", id |-> id,
                          favorites |-> favorites])

\* SaveDetailsRecord built of the payload alone
SaveDetailsRecordFromPayload(read, title) == [title |-> title]

\* { ...playlist, title: payload.title }
SaveDetailsRecord(read, title) == Spread(SpreadRead(read), [title |-> title])

\* { ...playlist, favorites: payload.favorites }
UpdateFavoritesRecord(read, favorites) ==
    Spread(SpreadRead(read), [favorites |-> favorites])

\* getByID of request r answers: switchMap builds the record and calls update
ReadStep(r, rec) ==
    /\ r.phase = "read"
    /\ inflight' = Finish(r) \cup
           {Spread(r, [phase |-> "write", read |-> GetByID(db, r.id), rec |-> rec])}
    /\ posted' = <<>>
    /\ ev' = [op |-> "read_done", n |-> r.n]
    /\ UNCHANGED <<db, keyOrder, now, nextGuid, faults, failed, made>>

\* update of request r completes and answers all records
WriteStep(r, op, respond) ==
    /\ r.phase = "write"
    /\ HasKey(r.rec)
    /\ db' = Put(db, r.rec)
    /\ inflight' = Finish(r)
    /\ posted' = IF respond
                 THEN <<Message("PLAYLIST_GET_ALL_RESPONSE", GetAll(db', keyOrder), r.n)>>
                 ELSE <<>>
    /\ ev' = [op |-> op, req |-> r]
    /\ UNCHANGED <<keyOrder, now, nextGuid, faults, failed, made>>

SaveDetailsRead ==
    \E r \in inflight :
        /\ r.type = "PLAYLIST_SAVE_DETAILS"
        /\ ReadStep(r, SaveDetailsRecord(GetByID(db, r.id), r.title))

SaveDetailsWrite ==
    \E r \in inflight :
        /\ r.type = "PLAYLIST_SAVE_DETAILS"
        /\ WriteStep(r, "details_saved", TRUE)

UpdateFavoritesRead ==
    \E r \in inflight :
        /\ r.type = "PLAYLIST_UPDATE_FAVORITES"
        /\ ReadStep(r, UpdateFavoritesRecord(GetByID(db, r.id), r.favorites))

UpdateFavoritesWrite ==
    \E r \in inflight :
        /\ r.type = "PLAYLIST_UPDATE_FAVORITES"
        /\ WriteStep(r, "favorites_updated", FALSE)

----------------------------------------------------------------------------
(* sendIpcEvent: PLAYLIST_UPDATE (refresh) *)

UPDATED == "UPDATED"

UpdateCmd ==
    \E id \in CommandIds, url \in Urls :
        /\ CanAdmit
        /\ inflight' = Admit([type |-> "PLAYLIST_UPDATE", id |-> id, url |-> url,
                              phase |-> "http", before |-> GetByID(db, id)])
        /\ posted' = <<>>
        /\ now' = now + 1
        /\ ev' = [op |-> "PLAYLIST_UPDATE", n |-> now + 1]
        /\ UNCHANGED <<db, keyOrder, nextGuid, faults, failed, made>>

\* the proxy answers with the playlist file's text
UpdateFetchOk ==
    \E r \in inflight, text \in Texts :
        /\ r.type = "PLAYLIST_UPDATE" /\ r.phase = "http"
        /\ LET response == Join(text)
               refreshedPlaylist == convertFileStringToPlaylist(response)
           IN inflight' = Finish(r) \cup
                  {Spread(r, [phase |-> "read", refreshed |-> refreshedPlaylist])}
        /\ posted' = <<>>
        /\ ev' = [op |-> "update_fetched", n |-> r.n]
        /\ UNCHANGED <<db, keyOrder, now, nextGuid, faults, failed, made>>

\* UpdateFetchFail with the fetch tried again after the error
UpdateFetchFailRetried ==
    \E r \in inflight :
        /\ r.type = "PLAYLIST_UPDATE" /\ r.phase = "http"
        /\ faults < MaxFaults
        /\ faults' = faults + 1
        /\ failed' = failed \cup {r.n}
        /\ posted' = <<[type |-> "ERROR", req |-> r.n]>>
        /\ inflight' = inflight
        /\ ev' = [op |-> "update_fetch_failed", req |-> r, before |-> db]
        /\ UNCHANGED <<db, keyOrder, now, nextGuid, made>>

\* catchError of the fetch: post ERROR and rethrow
UpdateFetchFail ==
    \E r \in inflight :
        /\ r.type = "PLAYLIST_UPDATE" /\ r.phase = "http"
        /\ faults < MaxFaults
        /\ faults' = faults + 1
        /\ failed' = failed \cup {r.n}
        /\ posted' = <<[type |-> "ERROR", req |-> r.n]>>
        /\ inflight' = Finish(r)
        /\ ev' = [op |-> "update_fetch_failed", req |-> r, before |-> db]
        /\ UNCHANGED <<db, keyOrder, now, nextGuid, made>>

\* MergeRefreshed with the favorites the fresh entries do not hold dropped
MergeRefreshedPruned(read, refreshedPlaylist, t) ==
    LET currentPlaylist == SpreadRead(read)
        held(f) == \E c \in Range(refreshedPlaylist.items) : IdOf(c) = f
    IN Spread(Spread(currentPlaylist, refreshedPlaylist),
              Spread([count       |-> Len(refreshedPlaylist.items),
                      updateDate  |-> t,
                      updateState |-> UPDATED],
                     IF Has(currentPlaylist, "favorites")
                     THEN [favorites |-> SelectSeq(currentPlaylist.favorites, held)]
                     ELSE Empty))

\* { ...currentPlaylist, ...refreshedPlaylist, count, updateDate, updateState }
\* built at instant t
MergeRefreshed(read, refreshedPlaylist, t) ==
    Spread(Spread(SpreadRead(read), refreshedPlaylist),
           [count       |-> Len(refreshedPlaylist.items),
            updateDate  |-> t,
            updateState |-> UPDATED])

UpdateRead ==
    \E r \in inflight :
        /\ r.type = "PLAYLIST_UPDATE"
        /\ ReadStep(r, MergeRefreshed(GetByID(db, r.id), r.refreshed, now))

UpdateWrite ==
    \E r \in inflight :
        /\ r.type = "PLAYLIST_UPDATE"
        /\ WriteStep(r, "playlist_updated", TRUE)

----------------------------------------------------------------------------
(* sendIpcEvent: PLAYLIST_PARSE_BY_URL, fetchFromUrl *)

ParseByUrlCmd ==
    \E url \in Urls :
        /\ CanAdmit
        /\ inflight' = Admit([type |-> "PLAYLIST_PARSE_BY_URL", url |-> url,
                              phase |-> "http"])
        /\ posted' = <<>>
        /\ now' = now + 1
        /\ ev' = [op |-> "PLAYLIST_PARSE_BY_URL", n |-> now + 1]
        /\ UNCHANGED <<db, keyOrder, nextGuid, faults, failed, made>>

\* the playlist object the proxy answers with: the file at the url, parsed
\* and normalized on its side
ProxyResponse(url, text, g, t) ==
    createPlaylistObject("t0", parsePlaylist(text), url, "URL", g, t)

FetchFromUrlOk ==
    \E r \in inflight, text \in Texts, at \in 0..Len(keyOrder) :
        /\ r.type = "PLAYLIST_PARSE_BY_URL" /\ r.phase = "http"
        /\ Cardinality(DOMAIN db) + Cardinality(Adding) < MaxPlaylists
        /\ LET response == ProxyResponse(r.url, text, nextGuid, now)
           IN /\ inflight' = Finish(r) \cup {Spread(r, [phase |-> "add", rec |-> response])}
              /\ posted' = <<Message("PLAYLIST_PARSE_RESPONSE", response, r.n)>>
              /\ keyOrder' = Insert(keyOrder, at, response.id)
        /\ nextGuid' = nextGuid + GuidsUsed(parsePlaylist(text))
        /\ ev' = [op |-> "url_fetched", n |-> r.n]
        /\ UNCHANGED <<db, now, faults, failed, made>>

\* catchError of the fetch: post ERROR and rethrow
FetchFromUrlFail ==
    \E r \in inflight :
        /\ r.type = "PLAYLIST_PARSE_BY_URL" /\ r.phase = "http"
        /\ faults < MaxFaults
        /\ faults' = faults + 1
        /\ failed' = failed \cup {r.n}
        /\ posted' = <<[type |-> "ERROR", message |-> "something went wrong",
                        status |-> "status", req |-> r.n]>>
        /\ inflight' = Finish(r)
        /\ ev' = [op |-> "fetch_from_url_failed", req |-> r, before |-> db]
        /\ UNCHANGED <<db, keyOrder, now, nextGuid, made>>

----------------------------------------------------------------------------
(* sendIpcEvent: PLAYLIST_UPDATE_POSITIONS *)

\* the payload: the playlists of the list the user reordered (each once), in
\* the order wanted; only their _id is read
Batches == {b \in SeqsUpTo(CommandIds, MaxPlaylists) : b # <<>> /\ NoDup(b)}

UpdatePositionsCmd ==
    \E batch \in Batches :
        /\ CanAdmit
        /\ inflight' = Admit([type |-> "PLAYLIST_UPDATE_POSITIONS", phase |-> "batch",
                              batch |-> batch,
                              st    |-> [i \in DOMAIN batch |-> "read"],
                              reads |-> [i \in DOMAIN batch |-> <<>>],
                              recs  |-> [i \in DOMAIN batch |-> Empty]])
        /\ posted' = <<>>
        /\ now' = now + 1
        /\ ev' = [op |-> "PLAYLIST_UPDATE_POSITIONS", n |-> now + 1]
        /\ UNCHANGED <<db, keyOrder, nextGuid, faults, failed, made>>

\* PositionRecord counting positions from 1
PositionRecordOneBased(read, index) ==
    Spread(SpreadRead(read), [position |-> index + 1])

\* { ...playlist, position: index }
PositionRecord(read, index) == Spread(SpreadRead(read), [position |-> index])

\* the chain of an item has a storage call pending
Pending(st) == {i \in DOMAIN st : st[i] \in {"read", "write"}}

AllDone(st) == \A i \in DOMAIN st : st[i] = "done"

\* the batch request r after a step left it as q: it stays in flight while a
\* storage call of it is pending
PositionsAfter(r, q) ==
    /\ inflight' = IF Pending(q.st) = {} THEN Finish(r) ELSE Finish(r) \cup {q}
    /\ ev' = [op |-> IF AllDone(q.st) THEN "positions_done"
                     ELSE IF Pending(q.st) = {} THEN "positions_ended"
                     ELSE "position_step",
              req |-> q]
    /\ posted' = <<>>

\* getByID of item i answers: switchMap builds the record and calls update
PositionRead ==
    \E r \in inflight :
        /\ r.type = "PLAYLIST_UPDATE_POSITIONS"
        /\ \E i \in DOMAIN r.batch :
            /\ r.st[i] = "read"
            /\ LET read == GetByID(db, r.batch[i])
               IN PositionsAfter(r, [r EXCEPT !.st[i] = "write",
                                              !.reads[i] = read,
                                              !.recs[i] = PositionRecord(read, i - 1)])
        /\ UNCHANGED <<db, keyOrder, now, nextGuid, faults, failed, made>>

\* update of item i completes
PositionWrite ==
    \E r \in inflight :
        /\ r.type = "PLAYLIST_UPDATE_POSITIONS"
        /\ \E i \in DOMAIN r.batch :
            /\ r.st[i] = "write"
            /\ HasKey(r.recs[i])
            /\ db' = Put(db, r.recs[i])
            /\ PositionsAfter(r, [r EXCEPT !.st[i] = "done"])
        /\ UNCHANGED <<keyOrder, now, nextGuid, faults, failed, made>>

\* combineLatest after item i errored: it unsubscribes from every chain, so a
\* chain still waiting for its getByID never calls update; an update already
\* called runs on in the store
TornDown(st, i) ==
    [j \in DOMAIN st |-> IF j = i THEN "failed"
                         ELSE IF st[j] = "read" THEN "cancelled"
                         ELSE st[j]]

\* a storage call of item i fails
PositionFail ==
    \E r \in inflight :
        /\ r.type = "PLAYLIST_UPDATE_POSITIONS"
        /\ \E i \in Pending(r.st) :
            /\ faults < MaxFaults
            /\ faults' = faults + 1
            /\ PositionsAfter(r, [r EXCEPT !.st = TornDown(r.st, i)])
        /\ UNCHANGED <<db, keyOrder, now, nextGuid, failed, made>>

\* update of item i is refused: the record has no key
PositionRejected ==
    \E r \in inflight :
        /\ r.type = "PLAYLIST_UPDATE_POSITIONS"
        /\ \E i \in DOMAIN r.batch :
            /\ r.st[i] = "write"
            /\ ~HasKey(r.recs[i])
            /\ PositionsAfter(r, [r EXCEPT !.st = TornDown(r.st, i)])
        /\ UNCHANGED <<db, keyOrder, now, nextGuid, faults, failed, made>>

----------------------------------------------------------------------------
(* Storage failures of the other requests *)

StoragePhases == {"add", "getAll", "getByIndex", "delete", "read", "write"}

\* the storage call of request r fails: no handler hears of it
StorageFail ==
    \E r \in inflight :
        /\ r.phase \in StoragePhases
        /\ faults < MaxFaults
        /\ faults' = faults + 1
        /\ inflight' = Finish(r)
        /\ posted' = <<>>
        /\ ev' = [op |-> "storage_failed", req |-> r]
        /\ UNCHANGED <<db, keyOrder, now, nextGuid, failed, made>>

\* update is refused: the record has no key
WriteRejected ==
    \E r \in inflight :
        /\ r.phase = "write"
        /\ ~HasKey(r.rec)
        /\ inflight' = Finish(r)
        /\ posted' = <<>>
        /\ ev' = [op |-> "write_rejected", req |-> r]
        /\ UNCHANGED <<db, keyOrder, now, nextGuid, faults, failed, made>>

----------------------------------------------------------------------------

Next ==
    \/ ParseCmd \/ AddDone
    \/ GetByIdCmd \/ GlobalFavoritesDone \/ GetByIndexDone
    \/ RemoveCmd \/ RemoveDone
    \/ GetAllCmd \/ GetAllDone
    \/ SaveDetailsCmd \/ SaveDetailsRead \/ SaveDetailsWrite
    \/ UpdateFavoritesCmd \/ UpdateFavoritesRead \/ UpdateFavoritesWrite
    \/ UpdateCmd \/ UpdateFetchOk \/ UpdateFetchFail \/ UpdateRead \/ UpdateWrite
    \/ ParseByUrlCmd \/ FetchFromUrlOk \/ FetchFromUrlFail
    \/ UpdatePositionsCmd \/ PositionRead \/ PositionWrite
    \/ PositionFail \/ PositionRejected
    \/ StorageFail \/ WriteRejected

Spec == Init /\ [][Next]_vars

----------------------------------------------------------------------------
(* The service over a storage that answers every call: a fetch may fail or
   never return, a storage call neither fails nor hangs *)

NextLive ==
    \/ ParseCmd \/ AddDone
    \/ GetByIdCmd \/ GlobalFavoritesDone \/ GetByIndexDone
    \/ RemoveCmd \/ RemoveDone
    \/ GetAllCmd \/ GetAllDone
    \/ SaveDetailsCmd \/ SaveDetailsRead \/ SaveDetailsWrite
    \/ UpdateFavoritesCmd \/ UpdateFavoritesRead \/ UpdateFavoritesWrite
    \/ UpdateCmd \/ UpdateFetchOk \/ UpdateFetchFail \/ UpdateRead \/ UpdateWrite
    \/ ParseByUrlCmd \/ FetchFromUrlOk \/ FetchFromUrlFail
    \/ UpdatePositionsCmd \/ PositionRead \/ PositionWrite \/ PositionRejected
    \/ WriteRejected

\* every storage call issued is answered
StorageAnswers ==
    /\ WF_vars(AddDone)
    /\ WF_vars(GlobalFavoritesDone) /\ WF_vars(GetByIndexDone)
    /\ WF_vars(RemoveDone)
    /\ WF_vars(GetAllDone)
    /\ WF_vars(SaveDetailsRead) /\ WF_vars(SaveDetailsWrite)
    /\ WF_vars(UpdateFavoritesRead) /\ WF_vars(UpdateFavoritesWrite)
    /\ WF_vars(UpdateRead) /\ WF_vars(UpdateWrite)
    /\ WF_vars(PositionRead) /\ WF_vars(PositionWrite) /\ WF_vars(PositionRejected)
    /\ WF_vars(WriteRejected)

SpecLive == Init /\ [][NextLive]_vars /\ StorageAnswers

----------------------------------------------------------------------------
(* Entry Normalizer alone: createPlaylistObject called MaxCalls times *)

\* uploadType?: 'URL' | 'FILE'
UploadTypes == {"URL", "FILE", UNDEFINED}

InitNorm ==
    /\ db = Empty
    /\ keyOrder = <<>>
    /\ inflight = {}
    /\ now = 0
    /\ nextGuid = 0
    /\ posted = <<>>
    /\ ev = [op |-> "init"]
    /\ faults = 0
    /\ failed = {}
    /\ made = <<>>

NormalizeCall ==
    \E name \in Titles, text \in Texts, urlOrPath \in Paths \cup Urls,
       uploadType \in UploadTypes :
        LET playlist == parsePlaylist(text) IN
        /\ Len(made) < MaxCalls
        /\ made' = Append(made,
               [uploadType |-> uploadType, urlOrPath |-> urlOrPath,
                result |-> createPlaylistObject(name, playlist, urlOrPath,
                                                uploadType, nextGuid, now)])
        /\ nextGuid' = nextGuid + GuidsUsed(playlist)
        /\ now' = now + 1
        /\ ev' = [op |-> "createPlaylistObject"]
        /\ UNCHANGED <<db, keyOrder, inflight, posted, faults, failed>>

NextNorm == NormalizeCall

SpecNorm == InitNorm /\ [][NextNorm]_vars

----------------------------------------------------------------------------
(* Aggregator alone: aggregateFavoriteChannels on a collection *)

AggEntries == {[id |-> "e1", name |-> "a"], [id |-> "e2", name |-> "b"]}

\* the favorites of a playlist: absent, or up to two marks
AggFavorites ==
    {Empty} \cup {[favorites |-> f] : f \in SeqsUpTo({"e1", "e2"}, 2)}

AggPlaylists ==
    {Spread([playlist |-> [items |-> items]], fav) :
        items \in SeqsUpTo(AggEntries, 2), fav \in AggFavorites}

InitAgg ==
    /\ db = Empty
    /\ keyOrder = <<>>
    /\ inflight = {}
    /\ now = 0
    /\ nextGuid = 0
    /\ posted = <<>>
    /\ ev = [op |-> "init"]
    /\ faults = 0
    /\ failed = {}
    /\ made \in SeqsUpTo(AggPlaylists, MaxCollection)

AggregateCall ==
    /\ ev.op = "init"
    /\ ev' = [op |-> "aggregateFavoriteChannels",
              favorites |-> aggregateFavoriteChannels(made)]
    /\ UNCHANGED <<db, keyOrder, inflight, now, nextGuid, posted, faults, failed, made>>

NextAgg == AggregateCall

SpecAgg == InitAgg /\ [][NextAgg]_vars

----------------------------------------------------------------------------
(* Properties *)

RefreshWritten == ev.op = "playlist_updated" /\ ev.req.alone /\ ev.req.before # <<>>

SameField(p, q, f) == (Has(p, f) <=> Has(q, f)) /\ (Has(p, f) => p[f] = q[f])

\* C1: a refresh of a stored playlist P that ran with no other request in
\* flight wrote a record with P's id, _id, title, favorites, autoRefresh,
\* importDate and url / filePath, whatever the fresh entries are.
C1_RefreshKeepsUserFields ==
    RefreshWritten =>
        LET P == ev.req.before[1]
            Q == db[ev.req.id]
        IN /\ Q = ev.req.rec
           /\ \A f \in {"id", "_id", "title", "favorites", "autoRefresh",
                        "importDate", "url", "filePath"} : SameField(P, Q, f)
           /\ Has(Q, "id") /\ Has(Q, "_id") /\ Has(Q, "title") /\ Has(Q, "favorites")

\* a refresh kept the favorites of a playlist none of whose fresh entries
\* carries a favorite identifier
C1_Witness ==
    /\ RefreshWritten
    /\ ev.req.before[1].favorites # <<>>
    /\ ev.req.refreshed.items # <<>>
    /\ \A c \in Range(ev.req.refreshed.items) :
           ~Includes(ev.req.before[1].favorites, IdOf(c))

\* C2: after a successful refresh the stored record's playlist.items and
\* playlist.header are the fresh ones, count is the length of playlist.items,
\* updateDate is the current instant and updateState is UPDATED.
C2_RefreshReplacesContent ==
    RefreshWritten =>
        LET Q == db[ev.req.id]
            fresh == ev.req.refreshed
        IN /\ Q.playlist.items = fresh.items
           /\ Q.playlist.header = fresh.header
           /\ Q.count = Len(Q.playlist.items)
           /\ Q.updateDate = now
           /\ Q.updateState = UPDATED

TransportFailed == ev.op \in {"update_fetch_failed", "fetch_from_url_failed"}

\* C3: when the fetch of a refresh or of an import by URL fails, ERROR is
\* posted, the store is as before, the request is over (no storage call, no
\* second fetch) and no response other than ERROR is ever posted for it.
C3_TransportFailure ==
    /\ TransportFailed =>
           /\ Len(posted) = 1
           /\ posted[1].type = "ERROR" /\ posted[1].req = ev.req.n
           /\ db = ev.before
    /\ \A n \in failed :
           /\ \A r \in inflight : r.n # n
           /\ \A i \in DOMAIN posted : posted[i].req = n => posted[i].type = "ERROR"

\* the fetch of a refresh of a stored playlist failed
C3_Witness ==
    /\ ev.op = "update_fetch_failed"
    /\ ev.req.before # <<>>
    /\ ev.req.n \in failed

ReorderDone == ev.op = "positions_done" /\ ev.req.alone

\* C4: once a reorder that ran with no other request in flight has completed
\* (every storage call succeeded), playlist batch[i] has position i - 1; so a
\* second run of the same batch leaves the same positions.
C4_ReorderSetsPositions ==
    ReorderDone =>
        \A i \in DOMAIN ev.req.batch :
            /\ ev.req.batch[i] \in DOMAIN db
            /\ HasPosition(db[ev.req.batch[i]])
            /\ db[ev.req.batch[i]].position = i - 1

\* a batch of all the playlists was applied to playlists a first run of the
\* same batch had positioned
C4_Witness ==
    /\ ReorderDone
    /\ Len(ev.req.batch) = MaxPlaylists
    /\ \A i \in DOMAIN ev.req.batch :
           /\ ev.req.reads[i] # <<>>
           /\ HasPosition(ev.req.reads[i][1])
           /\ ev.req.reads[i][1].position = i - 1

\* C5: when a reorder of stored playlists is over, every playlist of the
\* batch whose own storage calls did not fail has its position set to its
\* index, whatever happened to the others.
C5_ReorderFailuresIndependent ==
    (/\ ev.op = "positions_ended" /\ ev.req.alone
     /\ \A j \in DOMAIN ev.req.batch : GetByID(db, ev.req.batch[j]) # <<>>) =>
        \A j \in DOMAIN ev.req.batch :
            ev.req.st[j] # "failed" =>
                /\ HasPosition(db[ev.req.batch[j]])
                /\ db[ev.req.batch[j]].position = j - 1

\* C6: the payload of the response to get-all holds exactly the stored
\* playlists, each adjacent pair in non-decreasing position.
C6_GetAllSortedByPosition ==
    ev.op = "get_all_done" =>
        LET payload == posted[1].payload
            stored == GetAll(db, keyOrder)
        IN /\ \E f \in Bijections(stored) : payload = Reordered(stored, f)
           /\ \A i \in 1..(Len(payload) - 1) :
                  /\ HasPosition(payload[i]) /\ HasPosition(payload[i + 1])
                  /\ payload[i].position <= payload[i + 1].position

RECURSIVE Flatten(_)
Flatten(seqs) == IF seqs = <<>> THEN <<>> ELSE Head(seqs) \o Flatten(Tail(seqs))

\* the entries of playlist p that p.favorites names, in p's order
FavoriteEntries(p) ==
    IF Has(p, "favorites")
    THEN SelectSeq(p.playlist.items, LAMBDA e : IdOf(e) \in Range(p.favorites))
    ELSE <<>>

\* C7: aggregateFavoriteChannels returns the entries of each playlist that
\* its favorites name, in the playlist's order, playlist after playlist.
C7_AggregateSelectsFavorites ==
    ev.op = "aggregateFavoriteChannels" =>
        ev.favorites = Flatten([i \in DOMAIN made |-> FavoriteEntries(made[i])])

\* two playlists contribute, the first one's marks in the reverse of its
\* entries' order; a third kind (no favorites) is covered by AggFavorites
C7_Witness ==
    /\ ev.op = "aggregateFavoriteChannels"
    /\ Len(made) = 2
    /\ Has(made[1], "favorites") /\ made[1].favorites = <<"e2", "e1">>
    /\ made[1].playlist.items = <<[id |-> "e1", name |-> "a"], [id |-> "e2", name |-> "b"]>>
    /\ Has(made[2], "favorites") /\ made[2].favorites = <<"e1">>
    /\ Len(ev.favorites) = 3

RECURSIVE SelectedOf(_)
\* the number of entries the playlists' favorites select
SelectedOf(playlists) ==
    IF playlists = <<>> THEN 0
    ELSE Cardinality({i \in DOMAIN Head(playlists).playlist.items :
                         IdOf(Head(playlists).playlist.items[i])
                             \in Range(Head(playlists).favorites)})
             + SelectedOf(Tail(playlists))

\* C8: the view posted for get-by-id GLOBAL_FAVORITES has id = _id =
\* GLOBAL_FAVORITES and a count that is the length of its entries and the
\* number of favorite entries of all stored playlists.
C8_FavoritesViewCount ==
    ev.op = "favorites_done" =>
        LET view == posted[1].payload IN
        /\ posted[1].type = "PLAYLIST_PARSE_RESPONSE"
        /\ view.id = GLOBAL_FAVORITES_PLAYLIST_ID
        /\ view._id = GLOBAL_FAVORITES_PLAYLIST_ID
        /\ view.count = Len(view.playlist.items)
        /\ view.count = SelectedOf(GetAll(db, keyOrder))

\* the view counts the favorites of two playlists
C8_Witness ==
    /\ ev.op = "favorites_done"
    /\ posted[1].payload.count = 2
    /\ \A k \in DOMAIN db : db[k].favorites # <<>>

\* the entries createPlaylistObject produced so far: <<call, index>>
MadeEntries ==
    {c \in (DOMAIN made) \X (1..MaxItems) : c[2] <= Len(made[c[1]].result.playlist.items)}

EntryAt(c) == made[c[1]].result.playlist.items[c[2]]

\* C9: every entry of the records createPlaylistObject produced has an
\* identifier, and no two entries, of one record or of two, share one.
C9_EntryIdsUnique ==
    \A c, d \in MadeEntries :
        /\ Has(EntryAt(c), "id")
        /\ EntryAt(c).id = EntryAt(d).id => c = d

\* two calls, each of a playlist of two entries
C9_Witness ==
    /\ Len(made) = 2
    /\ \A i \in DOMAIN made : Len(made[i].result.playlist.items) = 2

\* C10: a record createPlaylistObject produced has exactly one of url and
\* filePath: url (the urlOrPath given) when the origin kind is URL, filePath
\* when it is FILE.
C10_OneOrigin ==
    \A i \in DOMAIN made :
        LET p == made[i].result IN
        /\ Has(p, "url") # Has(p, "filePath")
        /\ made[i].uploadType = "URL" => Has(p, "url") /\ p.url = made[i].urlOrPath
        /\ made[i].uploadType = "FILE" => Has(p, "filePath") /\ p.filePath = made[i].urlOrPath

----------------------------------------------------------------------------
(* Properties of the stored collection and of the requests *)

\* C11: every stored record has id = _id and is stored under that key, so
\* getByID, getByIndex on _id and delete by id address the same record.
C11_IdIsIndexId ==
    \A k \in DOMAIN db :
        /\ Has(db[k], "id") /\ Has(db[k], "_id")
        /\ db[k].id = db[k]._id
        /\ db[k]._id = k
        /\ GetByID(db, db[k].id) = GetByIndex(db, keyOrder, "_id", db[k].id)
        /\ GetByID(Delete(db, db[k].id), k) = <<>>

\* a refresh wrote a playlist a reorder had positioned
C11_Witness ==
    /\ ev.op = "playlist_updated"
    /\ ev.req.id \in DOMAIN db
    /\ ev.req.before # <<>>
    /\ HasPosition(db[ev.req.id])

WriteDone == {"details_saved", "favorites_updated", "playlist_updated"}

PositionSteps == {"position_step", "positions_done", "positions_ended"}

C13_ResponseOnlyForStoredRecord ==
    /\ ev.op = "storage_failed" => posted = <<>>
    /\ \A i \in DOMAIN posted :
           (/\ posted[i].type = "PLAYLIST_PARSE_RESPONSE"
            /\ Has(posted[i], "payload")
            /\ Has(posted[i].payload, "filename")) =>
               GetByID(db, posted[i].payload._id) = <<posted[i].payload>>

\* C15: the write of a refresh leaves the title and the favorites of the
\* stored playlist as they are in the store, whatever requests ran between
\* its read and its write.
C15_RefreshKeepsUserEdits ==
    [][(ev'.op = "playlist_updated" /\ ev'.req.id \in DOMAIN db) =>
           /\ db'[ev'.req.id].title = db[ev'.req.id].title
           /\ db'[ev'.req.id].favorites = db[ev'.req.id].favorites]_vars

\* the fields each read-then-write request sets
FieldsSet(type) ==
    IF type = "PLAYLIST_SAVE_DETAILS" THEN {"title"}
    ELSE IF type = "PLAYLIST_UPDATE_FAVORITES" THEN {"favorites"}
    ELSE {"header", "items", "count", "updateDate", "updateState"}

\* rec is what read answered, but for the fields set
BuiltFromRead(rec, read, set) ==
    IF read = <<>> THEN DOMAIN rec \subseteq set
    ELSE \A f \in DOMAIN read[1] \ set : Has(rec, f) /\ rec[f] = read[1][f]

\* C16: a request has a record to write only once its own read has
\* answered, that record is built of what the read answered, and it is the
\* record the update stores.
C16_WriteAfterOwnRead ==
    /\ \A r \in inflight :
           /\ r.phase \in {"http", "read"} => ~Has(r, "rec") /\ ~Has(r, "read")
           /\ r.phase = "write" =>
                  /\ Has(r, "read") /\ Has(r, "rec")
                  /\ BuiltFromRead(r.rec, r.read, FieldsSet(r.type))
                  /\ r.alone => r.read = GetByID(db, r.id)
           /\ r.phase = "batch" =>
                  \A i \in DOMAIN r.batch :
                      /\ r.st[i] = "read" => r.recs[i] = Empty /\ r.reads[i] = <<>>
                      /\ r.st[i] = "write" =>
                             /\ BuiltFromRead(r.recs[i], r.reads[i], {"position"})
                             /\ r.recs[i].position = i - 1
    /\ ev.op \in WriteDone =>
           /\ BuiltFromRead(ev.req.rec, ev.req.read, FieldsSet(ev.req.type))
           /\ db[ev.req.rec._id] = ev.req.rec

\* a refresh and another request are both about to write the playlist each
\* of them has read
C16_Witness ==
    \E r, q \in inflight :
        /\ r # q
        /\ r.type = "PLAYLIST_UPDATE" /\ r.phase = "write" /\ q.phase = "write"
        /\ r.id = q.id
        /\ r.read # <<>> /\ q.read # <<>>

\* C18: get-by-id GLOBAL_FAVORITES is served of getAll, never of
\* getByIndex, and stores nothing: the view is the aggregate of the store as
\* it is, and no record GLOBAL_FAVORITES is in the store.
C18_GlobalFavoritesNotStored ==
    /\ \A k \in DOMAIN db :
           /\ k # GLOBAL_FAVORITES_PLAYLIST_ID
           /\ db[k]._id # GLOBAL_FAVORITES_PLAYLIST_ID
    /\ \A r \in inflight :
           r.type = "PLAYLIST_GET_BY_ID" =>
               /\ r.phase \in {"getAll", "getByIndex"}
               /\ r.phase = "getAll" <=> r.id = GLOBAL_FAVORITES_PLAYLIST_ID
    /\ ev.op = "get_by_index_done" => ev.req.id # GLOBAL_FAVORITES_PLAYLIST_ID
    /\ ev.op = "favorites_done" =>
           /\ ev.req.id = GLOBAL_FAVORITES_PLAYLIST_ID
           /\ posted[1].payload =
                  createFavoritesPlaylist(aggregateFavoriteChannels(GetAll(db, keyOrder)))

\* the view of a full store was served while another request was in flight
C18_Witness ==
    /\ ev.op = "favorites_done"
    /\ ~ev.req.alone
    /\ Cardinality(DOMAIN db) = MaxPlaylists
    /\ posted[1].payload.playlist.items # <<>>

\* C19: every stored record's count is the length of its playlist.items.
C19_CountIsLength ==
    \A k \in DOMAIN db : db[k].count = Len(db[k].playlist.items)

\* C20: getGlobalFavoritesCount of the store is the count of the global
\* favorites view of the same store.
C20_FavoritesCountsAgree ==
    MarksOf(GetAll(db, keyOrder)) = FavoritesPlaylistOf(GetAll(db, keyOrder)).count

\* request n waits for a storage call
Waiting(n) == \E r \in inflight : r.n = n /\ r.phase # "http"

Completions ==
    {"add_done", "favorites_done", "get_by_index_done", "delete_done",
     "get_all_done", "details_saved", "favorites_updated", "playlist_updated",
     "positions_done", "positions_ended", "write_rejected"}

\* the last storage call of request n has answered and its subscriber ran
Completed(n) == ev.op \in Completions /\ ev.req.n = n

\* C17: whatever fetches never return, a request that waits for storage
\* completes (its subscriber runs and posts the response it has to post).
C17_HungFetchBlocksNoOther ==
    \A n \in 1..MaxNow : Waiting(n) ~> Completed(n)

\* a request received after a fetch that has not returned has completed
C17_Witness ==
    /\ ev.op \in Completions
    /\ \E r \in inflight : r.phase = "http" /\ r.n < ev.req.n

====
